---- MODULE Spec2Model ----
(***************************************************************************)
(* uule-converter: the UULEv1 and UULEv2 codecs (src/src/uulev1.rs,        *)
(* src/src/uulev2.rs) and the e7 coordinate conversion                     *)
(* (src/src/latlong.rs).                                                   *)
(*                                                                         *)
(* Representation.  A Rust string or byte vector is a sequence of bytes    *)
(* (0..255); a string is its UTF-8 encoding.  u8 and i32 values are        *)
(* integers.  u128 and i64 values do not fit TLC's 32-bit integers and     *)
(* are held as a sign and a decimal magnitude ("Big").  An f64 coordinate  *)
(* is held as an exact decimal with nine fractional digits: sign, the      *)
(* magnitude in units of 1e-7 degree, and hundredths of that unit.  The    *)
(* binary rounding error of f64 arithmetic (about 1e-14 degree) is below   *)
(* the resolution of that representation.                                  *)
(*                                                                         *)
(* A panic (an unwrap on Err, an index out of range) is the result         *)
(* [kind |-> "Panic"].                                                     *)
(***************************************************************************)
EXTENDS Integers, Sequences, FiniteSets

VARIABLES input, pc, token, result

vars == <<input, pc, token, result>>

----------------------------------------------------------------------------
(* Strings                                                                 *)

\* The ASCII code of a character.
Lower ==
  << "a", "b", "c", "d", "e", "f", "g", "h", "i", "j", "k", "l", "m",
     "n", "o", "p", "q", "r", "s", "t", "u", "v", "w", "x", "y", "z" >>

Upper ==
  << "A", "B", "C", "D", "E", "F", "G", "H", "I", "J", "K", "L", "M",
     "N", "O", "P", "Q", "R", "S", "T", "U", "V", "W", "X", "Y", "Z" >>

Digit == << "0", "1", "2", "3", "4", "5", "6", "7", "8", "9" >>

Punct ==
  << <<" ", 32>>, <<"*", 42>>, <<"+", 43>>, <<"-", 45>>, <<":", 58>>,
     <<"=", 61>>, <<"_", 95>>, <<"{", 123>>, <<"}", 125>> >>

Code(c) ==
  IF \E i \in 1..26 : Lower[i] = c THEN 96 + (CHOOSE i \in 1..26 : Lower[i] = c)
  ELSE IF \E i \in 1..26 : Upper[i] = c THEN 64 + (CHOOSE i \in 1..26 : Upper[i] = c)
  ELSE IF \E i \in 1..10 : Digit[i] = c THEN 47 + (CHOOSE i \in 1..10 : Digit[i] = c)
  ELSE Punct[CHOOSE i \in 1..Len(Punct) : Punct[i][1] = c][2]

\* The bytes of a string literal given as its characters.
Str(cs) == [i \in 1..Len(cs) |-> Code(cs[i])]

LF == 10
CR == 13

\* str::starts_with
StartsWith(s, p) == Len(s) >= Len(p) /\ SubSeq(s, 1, Len(p)) = p

\* str::trim_start_matches: the prefix is removed as often as it occurs.
RECURSIVE TrimStartMatches(_, _)
TrimStartMatches(s, p) ==
  IF p # << >> /\ StartsWith(s, p)
  THEN TrimStartMatches(SubSeq(s, Len(p) + 1, Len(s)), p)
  ELSE s

\* The index of the first occurrence of byte b in s, 0 when there is none.
IndexOf(s, b) ==
  IF \E i \in 1..Len(s) : s[i] = b
  THEN CHOOSE i \in 1..Len(s) : s[i] = b /\ \A j \in 1..(i - 1) : s[j] # b
  ELSE 0

\* String::from_utf8's test: the well-formed UTF-8 byte sequences.  Every
\* byte that is not a continuation byte (128..191) starts a character of the
\* width its value gives, followed by exactly that many continuation bytes.
IsValidUtf8(b) ==
  LET n == Len(b)
      Cont(i) == i <= n /\ b[i] >= 128 /\ b[i] <= 191
      Width(c) ==
        IF c <= 127 THEN 1
        ELSE IF c >= 194 /\ c <= 223 THEN 2
        ELSE IF c >= 224 /\ c <= 239 THEN 3
        ELSE IF c >= 240 /\ c <= 244 THEN 4
        ELSE 0
      Second(c, d) ==
        /\ c = 224 => d >= 160
        /\ c = 237 => d <= 159
        /\ c = 240 => d >= 144
        /\ c = 244 => d <= 143
      Char(i) ==
        LET w == Width(b[i])
        IN  /\ w > 0
            /\ \A k \in 1..(w - 1) : Cont(i + k)
            /\ w > 1 => Second(b[i], b[i + 1])
            /\ ~Cont(i + w)
  IN  /\ ~Cont(1)
      /\ \A i \in 1..n : ~Cont(i) => Char(i)

----------------------------------------------------------------------------
(* base64_url (URL-safe alphabet, no padding)                              *)

Pow2(k) == CASE k = 0 -> 1 [] k = 2 -> 4 [] k = 4 -> 16 [] k = 6 -> 64
             [] k = 8 -> 256 [] k = 10 -> 1024

\* The character of a 6-bit value: A-Z a-z 0-9 - _
B64Char(v) ==
  IF v < 26 THEN 65 + v
  ELSE IF v < 52 THEN 97 + (v - 26)
  ELSE IF v < 62 THEN 48 + (v - 52)
  ELSE IF v = 62 THEN 45 ELSE 95

IsB64Char(c) ==
  \/ c >= 65 /\ c <= 90
  \/ c >= 97 /\ c <= 122
  \/ c >= 48 /\ c <= 57
  \/ c = 45
  \/ c = 95

B64Value(c) ==
  IF c >= 65 /\ c <= 90 THEN c - 65
  ELSE IF c >= 97 /\ c <= 122 THEN c - 97 + 26
  ELSE IF c >= 48 /\ c <= 57 THEN c - 48 + 52
  ELSE IF c = 45 THEN 62 ELSE 63

\* base64_url::encode: every 6 bits of the input, the last group filled with 0s.
Base64UrlEncode(bytes) ==
  LET n == Len(bytes)
      At(j) == IF j <= n THEN bytes[j] ELSE 0
      Sextet(i) ==
        LET o == 6 * (i - 1)
            j == (o \div 8) + 1
            w == At(j) * 256 + At(j + 1)
        IN  (w \div Pow2(10 - (o % 8))) % 64
  IN  [i \in 1..((8 * n + 5) \div 6) |-> B64Char(Sextet(i))]

\* What base64_url::decode accepts: only characters of the alphabet (no
\* padding, no white space), a length that is not 1 modulo 4, and no set bit
\* in the unused low bits of the last character.
Base64UrlValid(s) ==
  LET n == Len(s)
  IN  /\ \A i \in 1..n : IsB64Char(s[i])
      /\ n % 4 # 1
      /\ n > 0 => B64Value(s[n]) % Pow2(6 * n - 8 * ((6 * n) \div 8)) = 0

\* base64_url::decode: Err(DecodeError) or the bytes.
Base64UrlDecode(s) ==
  IF ~Base64UrlValid(s) THEN [kind |-> "Err"]
  ELSE LET n == Len(s)
           Byte(j) ==
             LET o == 8 * (j - 1)
                 i == (o \div 6) + 1
                 w == B64Value(s[i]) * 64 + B64Value(s[i + 1])
             IN  (w \div Pow2(4 - (o % 6))) % 256
       IN  [kind |-> "Ok", bytes |-> [j \in 1..((6 * n) \div 8) |-> Byte(j)]]

----------------------------------------------------------------------------
(* UULEv1                                                                  *)

U8_MAX == 255

S_w_plus == Str(<<"w", "+">>)

Ok(v) == [kind |-> "Ok", value |-> v]
Panic == [kind |-> "Panic"]
None == [kind |-> "None"]
InvalidPrefix(s) == [kind |-> "InvalidPrefix", str |-> s]
Base64DecodingError == [kind |-> "Base64DecodingError"]
Utf8DecodingError == [kind |-> "Utf8DecodingError"]

\* Uulev1Data::encode with the length byte counting characters, not bytes.
Uulev1Encode_CharCount(r) ==
  LET name == r.canonical_name
      chars == Cardinality({i \in 1..Len(name) : name[i] < 128 \/ name[i] > 191})
  IN  S_w_plus \o Base64UrlEncode(
        <<8, r.role, 16, r.producer, 34, chars % (U8_MAX + 1)>> \o name)

\* Uulev1Data::encode.  `len() as u8` keeps the low 8 bits of the byte length.
Uulev1Encode(r) ==
  S_w_plus \o Base64UrlEncode(
    <<8, r.role, 16, r.producer, 34, Len(r.canonical_name) % (U8_MAX + 1)>>
      \o r.canonical_name)

\* Uulev1Data::decode without its prefix test.
Uulev1Decode_NoPrefixCheck(in) ==
  LET d == Base64UrlDecode(TrimStartMatches(in, S_w_plus))
  IN  IF d.kind = "Err" THEN Base64DecodingError
      ELSE IF Len(d.bytes) < 6 THEN Panic
      ELSE IF 6 + d.bytes[6] > Len(d.bytes) THEN Panic
      ELSE LET name == SubSeq(d.bytes, 7, 6 + d.bytes[6])
           IN  IF ~IsValidUtf8(name) THEN Utf8DecodingError
               ELSE Ok([role |-> d.bytes[2], producer |-> d.bytes[4],
                        canonical_name |-> name])

\* Uulev1Data::decode.  bytes[1], bytes[3], bytes[5] and the slice
\* bytes[6..6 + name_len] are unchecked: out of range, they panic.
Uulev1Decode(in) ==
  IF ~StartsWith(in, S_w_plus) THEN InvalidPrefix(in)
  ELSE LET d == Base64UrlDecode(TrimStartMatches(in, S_w_plus))
       IN  IF d.kind = "Err" THEN Base64DecodingError
           ELSE LET bytes == d.bytes
                IN  IF Len(bytes) < 6 THEN Panic
                    ELSE IF 6 + bytes[6] > Len(bytes) THEN Panic
                    ELSE LET name == SubSeq(bytes, 7, 6 + bytes[6])
                         IN  IF ~IsValidUtf8(name) THEN Utf8DecodingError
                             ELSE Ok([role |-> bytes[2], producer |-> bytes[4],
                                      canonical_name |-> name])

----------------------------------------------------------------------------
(* Integers: formatting and parsing                                        *)

\* The bounds of the integer types, as decimal magnitudes.
T_u8 == [signed |-> FALSE, max |-> <<2, 5, 5>>, min |-> <<0>>]

T_i32 ==
  [signed |-> TRUE, max |-> <<2, 1, 4, 7, 4, 8, 3, 6, 4, 7>>,
   min |-> <<2, 1, 4, 7, 4, 8, 3, 6, 4, 8>>]

T_i64 ==
  [signed |-> TRUE,
   max |-> <<9, 2, 2, 3, 3, 7, 2, 0, 3, 6, 8, 5, 4, 7, 7, 5, 8, 0, 7>>,
   min |-> <<9, 2, 2, 3, 3, 7, 2, 0, 3, 6, 8, 5, 4, 7, 7, 5, 8, 0, 8>>]

T_u128 ==
  [signed |-> FALSE,
   max |-> <<3, 4, 0, 2, 8, 2, 3, 6, 6, 9, 2, 0, 9, 3, 8, 4, 6, 3, 4, 6,
             3, 3, 7, 4, 6, 0, 7, 4, 3, 1, 7, 6, 8, 2, 1, 1, 4, 5, 5>>,
   min |-> <<0>>]

RECURSIVE StripZeros(_)
StripZeros(d) == IF Len(d) > 1 /\ d[1] = 0 THEN StripZeros(Tail(d)) ELSE d

\* a <= b, for magnitudes without leading zeros
MagLeq(a, b) ==
  \/ Len(a) < Len(b)
  \/ /\ Len(a) = Len(b)
     /\ \/ a = b
        \/ LET i == CHOOSE k \in 1..Len(a) :
                      a[k] # b[k] /\ \A j \in 1..(k - 1) : a[j] = b[j]
           IN  a[i] < b[i]

\* magnitude + 1
RECURSIVE MagInc(_)
MagInc(d) ==
  IF d = << >> THEN <<1>>
  ELSE IF d[Len(d)] < 9 THEN SubSeq(d, 1, Len(d) - 1) \o <<d[Len(d)] + 1>>
  ELSE MagInc(SubSeq(d, 1, Len(d) - 1)) \o <<0>>

Big(neg, mag) == [neg |-> neg /\ mag # <<0>>, mag |-> mag]

\* A u8 or i32 value as a Big: its decimal digits, by division.
RECURSIVE NatDigits(_)
NatDigits(n) == IF n < 10 THEN <<n>> ELSE NatDigits(n \div 10) \o <<n % 10>>

IntToBig(n) ==
  IF n >= 0 THEN Big(FALSE, NatDigits(n))
  ELSE LET last == (10 - (n % 10)) % 10
           rest == -((n + last) \div 10)
       IN  Big(TRUE, StripZeros(NatDigits(rest) \o <<last>>))

\* The value of a Big within the i32 range, accumulated as the parser does:
\* towards the sign.
RECURSIVE MagToInt(_, _, _)
MagToInt(d, acc, neg) ==
  IF d = << >> THEN acc
  ELSE MagToInt(Tail(d), IF neg THEN acc * 10 - d[1] ELSE acc * 10 + d[1], neg)

BigToInt(b) == MagToInt(b.mag, 0, b.neg)

\* `{}` of an integer: '-' for a negative value, then the decimal digits.
DisplayBig(b) ==
  (IF b.neg THEN <<45>> ELSE << >>) \o [i \in 1..Len(b.mag) |-> 48 + b.mag[i]]

DisplayInt(n) == DisplayBig(IntToBig(n))

\* str::parse::<T> for an integer type T: an optional '+' (and, for a signed
\* type, '-'), then one or more decimal digits, the value within T's range.
\* Err stands for ParseIntError, whatever its kind.
ParseInt(s, T) ==
  IF s = << >> THEN [kind |-> "Err"]
  ELSE IF Len(s) = 1 /\ s[1] \in {43, 45} THEN [kind |-> "Err"]
  ELSE LET neg == T.signed /\ s[1] = 45
           digits == IF s[1] = 43 \/ neg THEN Tail(s) ELSE s
       IN  IF \E i \in 1..Len(digits) : digits[i] < 48 \/ digits[i] > 57
           THEN [kind |-> "Err"]
           ELSE LET mag == StripZeros([i \in 1..Len(digits) |-> digits[i] - 48])
                IN  IF MagLeq(mag, IF neg THEN T.min ELSE T.max)
                    THEN [kind |-> "Ok", value |-> Big(neg, mag)]
                    ELSE [kind |-> "Err"]

----------------------------------------------------------------------------
(* latlong                                                                 *)

\* A coordinate: (-1)^neg * (mag + frac / 100) * 1e-7 degrees.
Float(neg, mag, frac) ==
  [neg |-> neg /\ ~(mag = <<0>> /\ frac = 0), mag |-> mag, frac |-> frac]

\* latlong_to_e7 without the rounding: the cast alone truncates.
latlong_to_e7_Truncate(x) ==
  Big(x.neg, IF MagLeq(x.mag, T_i64.max) THEN x.mag ELSE T_i64.max)

\* latlong_to_e7: (input * 10_000_000.0).round() as i64.  f64::round rounds
\* half away from zero; the cast saturates.
latlong_to_e7(x) ==
  LET m == IF x.frac >= 50 THEN MagInc(x.mag) ELSE x.mag
      lim == IF x.neg THEN T_i64.min ELSE T_i64.max
  IN  Big(x.neg, IF MagLeq(m, lim) THEN m ELSE lim)

\* latlong_from_e7: input as f64 / 10_000_000.0 (kept exact here; the cast
\* rounds an i64 beyond 2^53, far outside any coordinate)
latlong_from_e7(e) == Float(e.neg, e.mag, 0)

----------------------------------------------------------------------------
(* UULEv2                                                                  *)

S_a_plus == Str(<<"a", "+">>)
S_role == Str(<<"r", "o", "l", "e">>)
S_producer == Str(<<"p", "r", "o", "d", "u", "c", "e", "r">>)
S_provenance == Str(<<"p", "r", "o", "v", "e", "n", "a", "n", "c", "e">>)
S_timestamp == Str(<<"t", "i", "m", "e", "s", "t", "a", "m", "p">>)
S_latlng_open == Str(<<"l", "a", "t", "l", "n", "g", "{">>)
S_latitude_e7 == Str(<<"l", "a", "t", "i", "t", "u", "d", "e", "_", "e", "7">>)
S_longitude_e7 == Str(<<"l", "o", "n", "g", "i", "t", "u", "d", "e", "_", "e", "7">>)
S_close == Str(<<"}">>)
S_radius == Str(<<"r", "a", "d", "i", "u", "s">>)
COLON == Str(<<":">>)

UnexpectedEnd(f) == [kind |-> "UnexpectedEnd", field |-> f]
UnexpectedLine(e, a) == [kind |-> "UnexpectedLine", expected |-> e, actual |-> a]
MissingValue(f) == [kind |-> "MissingValue", field |-> f]
InvalidIntegerValue == [kind |-> "InvalidIntegerValue"]

\* The lines of the intermediate text of a record, in the order of the
\* format string of Display for Uulev2Data.
Uulev2Lines(r) ==
  << S_role \o COLON \o DisplayInt(r.role),
     S_producer \o COLON \o DisplayInt(r.producer),
     S_provenance \o COLON \o DisplayInt(r.provenance),
     S_timestamp \o COLON \o DisplayBig(r.timestamp),
     S_latlng_open,
     S_latitude_e7 \o COLON \o DisplayBig(latlong_to_e7(r.lat)),
     S_longitude_e7 \o COLON \o DisplayBig(latlong_to_e7(r.long)),
     S_close,
     S_radius \o COLON \o DisplayInt(r.radius) >>

\* The lines, each but the last followed by eol.
RECURSIVE Join(_, _)
Join(ls, eol) ==
  IF ls = << >> THEN << >>
  ELSE IF Len(ls) = 1 THEN ls[1]
  ELSE ls[1] \o eol \o Join(Tail(ls), eol)

\* Display for Uulev2Data (to_string): the lines joined by "\n", no trailing
\* newline.
Uulev2ToString(r) == Join(Uulev2Lines(r), <<LF>>)

\* Uulev2Data::encode
Uulev2Encode(r) == S_a_plus \o Base64UrlEncode(Uulev2ToString(r))

\* str::lines: split at each "\n"; a "\r" right before the "\n" is dropped
\* with it; no empty last line after a final "\n"; a "\r" that ends the
\* text with no "\n" after it stays in the last line.
RECURSIVE Lines(_)
Lines(s) ==
  IF s = << >> THEN << >>
  ELSE LET i == IndexOf(s, LF)
       IN  IF i = 0 THEN <<s>>
           ELSE LET l == SubSeq(s, 1, i - 1)
                IN  <<IF l # << >> /\ l[Len(l)] = CR
                      THEN SubSeq(l, 1, Len(l) - 1) ELSE l>>
                      \o Lines(SubSeq(s, i + 1, Len(s)))

\* lines.next(): Some(line) or None
NextLine(lines, i) ==
  IF i <= Len(lines) THEN [kind |-> "Some", line |-> lines[i]] ELSE None

\* Uulev2Data::get_field_value: the line must start with the field name; the
\* value is the second piece of line.split(':').
get_field_value(line, field) ==
  IF line.kind = "None" THEN UnexpectedEnd(field)
  ELSE IF ~StartsWith(line.line, field) THEN UnexpectedLine(field, line.line)
  ELSE LET l == line.line
           i == IndexOf(l, COLON[1])
       IN  IF i = 0 THEN MissingValue(field)
           ELSE LET rest == SubSeq(l, i + 1, Len(l))
                    j == IndexOf(rest, COLON[1])
                IN  Ok(IF j = 0 THEN rest ELSE SubSeq(rest, 1, j - 1))

\* Uulev2Data::parse_int_line::<T>
parse_int_line(line, field, T) ==
  LET v == get_field_value(line, field)
  IN  IF v.kind # "Ok" THEN v
      ELSE LET n == ParseInt(v.value, T)
           IN  IF n.kind = "Err" THEN InvalidIntegerValue ELSE Ok(n.value)

\* parse_lat_long accepting any line that starts with the delimiter.
parse_lat_long_StartsWith(lines, i) ==
  LET open == NextLine(lines, i)
      lat == parse_int_line(NextLine(lines, i + 1), S_latitude_e7, T_i64)
      long == parse_int_line(NextLine(lines, i + 2), S_longitude_e7, T_i64)
      close == NextLine(lines, i + 3)
  IN  IF open.kind = "None" THEN UnexpectedEnd(S_latlng_open)
      ELSE IF ~StartsWith(open.line, S_latlng_open)
        THEN UnexpectedLine(S_latlng_open, open.line)
      ELSE IF lat.kind # "Ok" THEN lat
      ELSE IF long.kind # "Ok" THEN long
      ELSE IF close.kind = "None" THEN UnexpectedEnd(S_close)
      ELSE IF ~StartsWith(close.line, S_close)
        THEN UnexpectedLine(S_close, close.line)
      ELSE Ok(<<latlong_from_e7(lat.value), latlong_from_e7(long.value)>>)

\* parse_lat_long testing both delimiters before it parses the coordinates.
parse_lat_long_FrameFirst(lines, i) ==
  LET open == NextLine(lines, i)
      lat == parse_int_line(NextLine(lines, i + 1), S_latitude_e7, T_i64)
      long == parse_int_line(NextLine(lines, i + 2), S_longitude_e7, T_i64)
      close == NextLine(lines, i + 3)
  IN  IF open.kind = "None" THEN UnexpectedEnd(S_latlng_open)
      ELSE IF open.line # S_latlng_open
        THEN UnexpectedLine(S_latlng_open, open.line)
      ELSE IF close.kind = "None" THEN UnexpectedEnd(S_close)
      ELSE IF close.line # S_close THEN UnexpectedLine(S_close, close.line)
      ELSE IF lat.kind # "Ok" THEN lat
      ELSE IF long.kind # "Ok" THEN long
      ELSE Ok(<<latlong_from_e7(lat.value), latlong_from_e7(long.value)>>)

\* Uulev2Data::parse_lat_long, reading the lines from index i on
parse_lat_long(lines, i) ==
  LET open == NextLine(lines, i)
      lat == parse_int_line(NextLine(lines, i + 1), S_latitude_e7, T_i64)
      long == parse_int_line(NextLine(lines, i + 2), S_longitude_e7, T_i64)
      close == NextLine(lines, i + 3)
  IN  IF open.kind = "None" THEN UnexpectedEnd(S_latlng_open)
      ELSE IF open.line # S_latlng_open
        THEN UnexpectedLine(S_latlng_open, open.line)
      ELSE IF lat.kind # "Ok" THEN lat
      ELSE IF long.kind # "Ok" THEN long
      ELSE IF close.kind = "None" THEN UnexpectedEnd(S_close)
      ELSE IF close.line # S_close THEN UnexpectedLine(S_close, close.line)
      ELSE Ok(<<latlong_from_e7(lat.value), latlong_from_e7(long.value)>>)

\* Uulev2Data::decode.  The two unwraps panic on text that is not base64-URL
\* or not UTF-8.
Uulev2Decode(in) ==
  IF ~StartsWith(in, S_a_plus) THEN InvalidPrefix(in)
  ELSE LET d == Base64UrlDecode(TrimStartMatches(in, S_a_plus))
       IN  IF d.kind = "Err" THEN Panic
           ELSE IF ~IsValidUtf8(d.bytes) THEN Panic
           ELSE LET lines == Lines(d.bytes)
                    role == parse_int_line(NextLine(lines, 1), S_role, T_u8)
                    producer == parse_int_line(NextLine(lines, 2), S_producer, T_u8)
                    provenance ==
                      parse_int_line(NextLine(lines, 3), S_provenance, T_i32)
                    timestamp ==
                      parse_int_line(NextLine(lines, 4), S_timestamp, T_u128)
                    latlong == parse_lat_long(lines, 5)
                    radius == parse_int_line(NextLine(lines, 9), S_radius, T_i32)
                IN  IF role.kind # "Ok" THEN role
                    ELSE IF producer.kind # "Ok" THEN producer
                    ELSE IF provenance.kind # "Ok" THEN provenance
                    ELSE IF timestamp.kind # "Ok" THEN timestamp
                    ELSE IF latlong.kind # "Ok" THEN latlong
                    ELSE IF radius.kind # "Ok" THEN radius
                    ELSE Ok([role |-> BigToInt(role.value),
                             producer |-> BigToInt(producer.value),
                             provenance |-> BigToInt(provenance.value),
                             timestamp |-> timestamp.value,
                             lat |-> latlong.value[1],
                             long |-> latlong.value[2],
                             radius |-> BigToInt(radius.value)])

----------------------------------------------------------------------------
(* Inputs                                                                  *)

MaxNameChars == 2
LongSpan == 2
MaxRawLen == 4
MaxBytesLen == 7

\* All sequences over S of length at most n
SeqsUpTo(S, n) == UNION {[1..k -> S] : k \in 0..n}

RECURSIVE Flatten(_)
Flatten(ss) == IF ss = << >> THEN << >> ELSE ss[1] \o Flatten(Tail(ss))

\* Characters of a place name, of one, two and three UTF-8 bytes: Q, e-acute,
\* the euro sign.
NameChars == {<<81>>, <<195, 169>>, <<226, 130, 172>>}

ShortNames == {Flatten(cs) : cs \in SeqsUpTo(NameChars, MaxNameChars)}

\* Names whose byte length is near the largest a length byte can hold: an
\* optional first character, then the letter a.
LongNames ==
  {c \o [i \in 1..(n - Len(c)) |-> 97] :
     c \in NameChars \cup {<< >>},
     n \in (U8_MAX - LongSpan)..(U8_MAX + 1 + LongSpan)}

V1Records ==
  [role : {0, 2, U8_MAX}, producer : {32, U8_MAX},
   canonical_name : ShortNames \cup LongNames]

\* Strings that need be no token: w + a A Q and a space
RawStrings == SeqsUpTo({119, 43, 97, 65, 81, 32}, MaxRawLen)

\* Byte sequences to be wrapped as a v1 token: a length byte that the
\* sequence may or may not cover, a byte that is no UTF-8
V1Bytes == SeqsUpTo({1, 65, 200}, MaxBytesLen)

Coords ==
  {Float(neg, mag, frac) :
     neg \in BOOLEAN,
     mag \in {<<0>>, <<3, 7, 4, 2, 0, 9, 9, 9, 9>>,
              <<1, 7, 9, 9, 9, 9, 9, 9, 9, 9>>, <<1, 8, 0, 0, 0, 0, 0, 0, 0, 0>>},
     frac \in {0, 1, 49, 50, 51, 99}}

V2Records ==
  [role : {1, U8_MAX}, producer : {12},
   provenance : {-2147483647 - 1, 6, 2147483647},
   timestamp : {Big(FALSE, <<0>>),
                Big(FALSE, <<1, 5, 9, 1, 5, 2, 1, 2, 4, 9, 0, 3, 4, 0, 0, 0>>),
                Big(FALSE, T_u128.max)},
   lat : Coords,
   long : {Float(TRUE, <<1, 2, 2, 0, 8, 4, 0, 0, 0>>, 0),
           Float(FALSE, <<1, 8, 0, 0, 0, 0, 0, 0, 0, 0>>, 0),
           Float(TRUE, <<0>>, 50)},
   radius : {-1, 6200}]

\* The record of the documentation's example, whose lines the texts vary.
SampleRecord ==
  [role |-> 1, producer |-> 12, provenance |-> 6,
   timestamp |-> Big(FALSE, <<1, 5, 9, 1, 5, 2, 1, 2, 4, 9, 0, 3, 4, 0, 0, 0>>),
   lat |-> Float(FALSE, <<3, 7, 4, 2, 1, 0, 0, 0, 0>>, 0),
   long |-> Float(TRUE, <<1, 2, 2, 0, 8, 4, 0, 0, 0>>, 0),
   radius |-> -1]

SampleLines == Uulev2Lines(SampleRecord)

\* What each step of the decoder expects, in order.
StepNames ==
  << S_role, S_producer, S_provenance, S_timestamp, S_latlng_open,
     S_latitude_e7, S_longitude_e7, S_close, S_radius >>

Steps == 1..Len(StepNames)
FieldSteps == Steps \ {5, 8}

\* The ways a line of the text is varied.
Variants(p) ==
  {"good", "other", "empty", "extra", "missing", "changed", "colon"}
    \cup (IF p \in FieldSteps
          THEN {"nameX", "noValue", "noColon", "badValue"} ELSE {})

Vary(p, v) ==
  LET l == SampleLines[p]
      f == StepNames[p]
  IN  CASE v = "good" -> l
        [] v = "other" -> SampleLines[(p % Len(StepNames)) + 1]
        [] v = "empty" -> << >>
        [] v = "extra" -> l \o <<32>>
        [] v = "missing" -> SubSeq(l, 1, Len(l) - 1)
        [] v = "changed" -> <<88>> \o Tail(l)
        [] v = "colon" -> l \o COLON \o <<50>>
        [] v = "nameX" -> f \o <<88>> \o SubSeq(l, Len(f) + 1, Len(l))
        [] v = "noValue" -> f \o COLON
        [] v = "noColon" -> f
        [] v = "badValue" -> f \o COLON \o <<120>>

\* The nine lines with two of them varied.
VariedTexts ==
  {Join([i \in Steps |->
           IF i = p THEN Vary(p, v) ELSE IF i = q THEN Vary(q, w)
           ELSE SampleLines[i]], <<LF>>) :
     <<p, v, q, w>> \in
       {x \in UNION {{p1} \X Variants(p1) \X {q1} \X Variants(q1) :
                       <<p1, q1>> \in Steps \X Steps} :
          x[1] < x[3]}}

\* The first k lines, the last of them varied, ended by "\n" or "\r\n", with
\* or without a line end after the last line.
CutTexts ==
  {Join([i \in 1..k |-> IF i = k THEN Vary(k, v) ELSE SampleLines[i]], eol)
     \o tail :
     <<k, v, eol, tail>> \in
       UNION {{k1} \X Variants(k1) \X {e} \X {<< >>, e} :
                <<k1, e>> \in Steps \X {<<LF>>, <<CR, LF>>}}}
    \cup {<< >>}

----------------------------------------------------------------------------
(* The operations                                                          *)

Init ==
  /\ pc = "start"
  /\ result = None
  /\ \/ \E r \in V1Records : input = [kind |-> "v1rec", rec |-> r] /\ token = << >>
     \/ \E r \in V2Records : input = [kind |-> "v2rec", rec |-> r] /\ token = << >>
     \/ \E s \in RawStrings : input = [kind |-> "raw", str |-> s] /\ token = s
     \/ \E b \in V1Bytes :
          /\ input = [kind |-> "v1bytes", bytes |-> b]
          /\ token = S_w_plus \o Base64UrlEncode(b)
     \/ \E t \in VariedTexts \cup CutTexts :
          /\ input = [kind |-> "v2text", text |-> t]
          /\ token = S_a_plus \o Base64UrlEncode(t)

\* r.encode() for a Uulev1Data r
EncodeV1 ==
  /\ pc = "start"
  /\ input.kind = "v1rec"
  /\ token' = Uulev1Encode(input.rec)
  /\ pc' = "encoded"
  /\ UNCHANGED <<input, result>>

\* Uulev1Data::decode(&token)
DecodeV1 ==
  /\ <<pc, input.kind>> \in
       {<<"encoded", "v1rec">>, <<"start", "raw">>, <<"start", "v1bytes">>}
  /\ result' = Uulev1Decode(token)
  /\ pc' = "done1"
  /\ UNCHANGED <<input, token>>

\* r.encode() for a Uulev2Data r
EncodeV2 ==
  /\ pc = "start"
  /\ input.kind = "v2rec"
  /\ token' = Uulev2Encode(input.rec)
  /\ pc' = "encoded"
  /\ UNCHANGED <<input, result>>

\* Uulev2Data::decode(&token)
DecodeV2 ==
  /\ <<pc, input.kind>> \in
       {<<"encoded", "v2rec">>, <<"start", "raw">>, <<"start", "v2text">>}
  /\ result' = Uulev2Decode(token)
  /\ pc' = "done2"
  /\ UNCHANGED <<input, token>>

Next == EncodeV1 \/ DecodeV1 \/ EncodeV2 \/ DecodeV2

Spec == Init /\ [][Next]_vars

----------------------------------------------------------------------------
(* The claims                                                              *)

NameOf(in) == in.rec.canonical_name

E7_180 == <<1, 8, 0, 0, 0, 0, 0, 0, 0, 0>>

\* -180 <= x <= 180
InRange(x) == MagLeq(x.mag, E7_180) /\ (x.mag = E7_180 => x.frac = 0)

\* |x - y| <= 5e-8 degrees, that is 50 hundredths of the e7 unit
Within5e8(x, y) ==
  LET ex == BigToInt(Big(x.neg, x.mag))
      ey == BigToInt(Big(y.neg, y.mag))
      fx == IF x.neg THEN -x.frac ELSE x.frac
      fy == IF y.neg THEN -y.frac ELSE y.frac
  IN  /\ ey \in {ex - 1, ex, ex + 1}
      /\ (ey - ex) * 100 + fy - fx \in -50..50

HasPrefix(s, a, b) == Len(s) >= 2 /\ s[1] = a /\ s[2] = b

\* C3: Uulev1Data::decode of a string that does not start with "w+", and
\* Uulev2Data::decode of a string that does not start with "a+", return
\* InvalidPrefix carrying that string, and nothing else.
C3_PrefixRejection ==
  /\ (pc = "done1" /\ ~HasPrefix(token, 119, 43)) => result = InvalidPrefix(token)
  /\ (pc = "done2" /\ ~HasPrefix(token, 97, 43)) => result = InvalidPrefix(token)

\* Uulev2Data::decode has rejected a four-character string that starts
\* with "w+".
C3_Witness ==
  /\ pc = "done2"
  /\ Len(token) = 4
  /\ HasPrefix(token, 119, 43)
  /\ result = InvalidPrefix(token)

\* C4: Uulev1Data::decode of "w+" followed by valid base64-URL returns Ok
\* or a declared error, and MalformedRecord when the decoded bytes are fewer
\* than 6 or fewer than 6 plus the length byte.
C4_NoFaultV1 ==
  (/\ pc = "done1"
   /\ HasPrefix(token, 119, 43)
   /\ Base64UrlValid(SubSeq(token, 3, Len(token))))
    => LET bytes == Base64UrlDecode(SubSeq(token, 3, Len(token))).bytes
       IN  /\ result.kind \in {"Ok", "Base64DecodingError", "Utf8DecodingError",
                               "MalformedRecord"}
           /\ (Len(bytes) < 6 \/ Len(bytes) < 6 + bytes[6])
                => result.kind = "MalformedRecord"

\* C5: Uulev2Data::decode of "a+" followed by text that is not valid
\* base64-URL returns Base64DecodingError.
C5_Base64ErrorV2 ==
  (/\ pc = "done2"
   /\ HasPrefix(token, 97, 43)
   /\ ~Base64UrlValid(SubSeq(token, 3, Len(token))))
    => result.kind = "Base64DecodingError"

\* C6: encode of a Uulev1Data whose name is longer than 255 bytes produces
\* no token, and so none that decodes to a record other than the one encoded.
C6_OversizedNameRejected ==
  (input.kind = "v1rec" /\ Len(NameOf(input)) > U8_MAX)
    => /\ pc = "encoded" => ~HasPrefix(token, 119, 43)
       /\ pc = "done1" => ~(result.kind = "Ok" /\ result.value # input.rec)

\* The lines of the text a v2 token was made from.
TextLines == Lines(input.text)

\* The integer type each step parses (steps 5 and 8 parse none).
StepTypes == <<T_u8, T_u8, T_i32, T_u128, T_i64, T_i64, T_i64, T_i64, T_i32>>

\* Line p is there and is a valid line of field step p.
ValidField(L, p) ==
  /\ Len(L) >= p
  /\ parse_int_line([kind |-> "Some", line |-> L[p]], StepNames[p],
                    StepTypes[p]).kind = "Ok"

IsLine(L, p, s) == Len(L) >= p /\ L[p] = s

EndOrLine == {"UnexpectedEnd", "UnexpectedLine"}

\* C7 as stated: with valid role, producer, provenance and timestamp lines,
\* decode returns Ok only if line 5 is "latlng{" and line 8 is "}", and
\* UnexpectedLine or UnexpectedEnd if either is not.
C7_AsStated ==
  (/\ pc = "done2"
   /\ input.kind = "v2text"
   /\ \A p \in 1..4 : ValidField(TextLines, p))
    => /\ result.kind = "Ok"
            => IsLine(TextLines, 5, S_latlng_open) /\ IsLine(TextLines, 8, S_close)
       /\ ~(IsLine(TextLines, 5, S_latlng_open) /\ IsLine(TextLines, 8, S_close))
            => result.kind \in EndOrLine

\* C7, amended: with valid role, producer, provenance and timestamp lines,
\* decode returns Ok only if line 5 is "latlng{" and line 8 is "}"; it
\* returns UnexpectedLine or UnexpectedEnd if line 5 is not "latlng{", and
\* also if line 8 is not "}" while lines 5 to 7 are valid.
C7_DelimiterExactness ==
  (/\ pc = "done2"
   /\ input.kind = "v2text"
   /\ \A p \in 1..4 : ValidField(TextLines, p))
    => /\ result.kind = "Ok"
            => IsLine(TextLines, 5, S_latlng_open) /\ IsLine(TextLines, 8, S_close)
       /\ ~IsLine(TextLines, 5, S_latlng_open) => result.kind \in EndOrLine
       /\ (/\ IsLine(TextLines, 5, S_latlng_open)
           /\ ValidField(TextLines, 6)
           /\ ValidField(TextLines, 7)
           /\ ~IsLine(TextLines, 8, S_close))
            => result.kind \in EndOrLine

\* A text whose line 8 is "}" with one more character, all other lines
\* valid, has been refused as an unexpected line.
C7_Witness ==
  /\ pc = "done2"
  /\ input.kind = "v2text"
  /\ \A p \in {1, 2, 3, 4, 6, 7, 9} : ValidField(TextLines, p)
  /\ IsLine(TextLines, 5, S_latlng_open)
  /\ IsLine(TextLines, 8, S_close \o <<32>>)
  /\ result = UnexpectedLine(S_close, S_close \o <<32>>)

\* The first k lines are the well-formed lines of the first k steps.
WellFormedUpTo(L, k) == Len(L) >= k /\ \A i \in 1..k : L[i] = SampleLines[i]

\* C8: decode takes the steps in the order role, producer, provenance,
\* timestamp, latlng{, latitude_e7, longitude_e7, }, radius and stops at the
\* first that fails: after k < 9 well-formed lines, the end of the text gives
\* UnexpectedEnd of step k+1, and a line of another step gives UnexpectedLine
\* of step k+1 and that line, whatever follows it.
C8_SequentialParse ==
  (pc = "done2" /\ input.kind = "v2text")
    => \A k \in 0..(Len(StepNames) - 1) :
         WellFormedUpTo(TextLines, k)
           => /\ Len(TextLines) = k => result = UnexpectedEnd(StepNames[k + 1])
              /\ (/\ Len(TextLines) > k
                  /\ \E j \in Steps \ {k + 1} : TextLines[k + 1] = SampleLines[j])
                   => result = UnexpectedLine(StepNames[k + 1], TextLines[k + 1])

\* After five well-formed lines, line 6 is the line of step 7 and line 8 is
\* not "}": the result names step 6 and line 6.
C8_Witness ==
  /\ pc = "done2"
  /\ input.kind = "v2text"
  /\ WellFormedUpTo(TextLines, 5)
  /\ IsLine(TextLines, 6, SampleLines[7])
  /\ Len(TextLines) >= 8
  /\ TextLines[8] # S_close
  /\ result = UnexpectedLine(S_latitude_e7, SampleLines[7])

\* The line is <field>:<value>: the field name before the first colon, and
\* after it a value of the field's type.
ExactField(L, p) ==
  /\ Len(L) >= p
  /\ LET l == L[p]
         i == IndexOf(l, COLON[1])
     IN  /\ i > 0
         /\ SubSeq(l, 1, i - 1) = StepNames[p]
         /\ ParseInt(SubSeq(l, i + 1, Len(l)), StepTypes[p]).kind = "Ok"

\* C9: decode returns Ok only if each of the seven field lines is
\* <field>:<value>, the field name being all the text before the first
\* colon and the value all the text after it.
C9_FieldLineExact ==
  (pc = "done2" /\ input.kind = "v2text" /\ result.kind = "Ok")
    => \A p \in FieldSteps : ExactField(TextLines, p)

\* C10: a field line that is the field name and a colon with nothing after
\* it, after well-formed lines, gives MissingValue of that field.
C10_MissingValue ==
  (pc = "done2" /\ input.kind = "v2text")
    => \A p \in FieldSteps :
         (WellFormedUpTo(TextLines, p - 1)
            /\ IsLine(TextLines, p, StepNames[p] \o COLON))
           => result = MissingValue(StepNames[p])

====
